---- MODULE Spec2Model ----
(***************************************************************************)
(* Alert-engine registry, alert polling workers and the alert event store  *)
(* of atriva-api-backend (app/routes/alert_engine.py, app/db/crud).        *)
(*                                                                         *)
(* Request handlers run on a thread pool.  A handler is one step, except   *)
(* the attach handler when it spawns a worker: start_alert_polling tests   *)
(* the registry and inserts into it with no lock held, so the test and the *)
(* insertion are two steps and other handlers run in between.  A polling   *)
(* worker is a thread that advances one blocking call at a time (the model *)
(* check, the loop test, one poll with its sleep).                         *)
(***************************************************************************)
EXTENDS Integers, Sequences, FiniteSets, TLC

\* ---- bounds of the model ----
MaxInputs == 4        \* requests served plus polls sent, over a whole run
MaxFrame == 2         \* distinct frames that bear detections

\* ---- database contents the process starts with ----
CameraRows == {1, 2}                 \* ids present in table cameras
EngineIds == {1, 2, 3}               \* ids a request may carry (3 is absent)
HUMAN_DETECTION == "human_detection"
LINE_CROSSING == "human_crossing_line"
PERSON == "person"
None == 0

\* <<camera_id, alert_engine_id>> pairs that attach and detach requests carry:
\* both cameras with the human_detection engine, a camera with the other
\* engine, an absent camera (3) and an absent engine (3)
PairInputs == {<<1, 1>>, <<2, 1>>, <<1, 2>>, <<3, 1>>, <<1, 3>>}

VARIABLES
    alert_engines,          \* table alert_engines: id -> [type, is_active]
    camera_alert_engines,   \* association table: set of <<camera_id, alert_engine_id>>
    alert_events,           \* table alert_events: sequence, id = index
    alert_polling_threads,  \* registry: thread key -> thread id
    thread_control,         \* stop flags: thread key -> BOOLEAN
    threads,                \* every thread ever spawned: [key, alert_type, pc, active_event]
    in_flight,              \* attach requests between the registry test and the insertion
    now,                    \* wall clock in seconds
    resp,                   \* last HTTP response: [op, status, polling]
    served,                 \* number of requests served
    hist,                   \* per thread: what its successful polls saw and did (history)
    stop_pending,           \* keys stopped and not started since (history)
    stopped,                \* per thread registered when its key was stopped: loop tests
                            \* it has passed since, counted up to 2 (history)
    pending_creates,        \* create requests between the name check and the insert
    body,                   \* body of the last response of the handlers that return one
    cameras,                \* table cameras: id -> [is_active, rtsp_url, vehicle_tracking_*]
    camera_status,          \* runtime status: camera id -> [is_active, streaming_status]
    ai_calls,               \* requests sent to the AI and video-pipeline services by camera handlers
    downstream,             \* how the downstream service answered the last camera request
    frames                  \* process_extracted_frames: [pc, elapsed_time, checks, last]

api_vars == <<pending_creates, body, cameras, camera_status, ai_calls, downstream, frames>>

vars == <<alert_engines, camera_alert_engines, alert_events, alert_polling_threads,
          thread_control, threads, in_flight, now, resp, served, hist, stop_pending,
          stopped, pending_creates, body, cameras, camera_status, ai_calls, downstream, frames>>

db_vars == <<alert_engines, camera_alert_engines, alert_events>>
worker_vars == <<alert_polling_threads, thread_control, threads, hist>>

\* ---- helpers on partial maps ----
MapSet(m, k, v) == [x \in DOMAIN m \cup {k} |-> IF x = k THEN v ELSE m[x]]

MapDel(m, k) == [x \in DOMAIN m \ {k} |-> m[x]]

\* ---- JSON: the config column (db/models/alert_engine.py, Column(JSON)) ----
\* a Python value as pydantic hands it over: None, an int, a list of values,
\* a dict as the sequence of its [key, val] items
PyNone == [t |-> "none", n |-> 0, items |-> <<>>]

PyInt(n) == [t |-> "int", n |-> n, items |-> <<>>]

PyList(xs) == [t |-> "list", n |-> 0, items |-> xs]

PyDict(kvs) == [t |-> "dict", n |-> 0, items |-> kvs]

\* the text of a JSON document, as its tokens
Tok(k, str, n) == [k |-> k, s |-> str, n |-> n]

Punct(c) == Tok("punct", c, 0)

RECURSIVE json_dumps(_), json_dumps_items(_, _)
\* the serializer of the column type, on the way into the table
json_dumps(v) ==
    CASE v.t = "none" -> <<Tok("null", "", 0)>>
      [] v.t = "int" -> <<Tok("num", "", v.n)>>
      [] v.t = "list" -> <<Punct("[")>> \o json_dumps_items(v.items, FALSE) \o <<Punct("]")>>
      [] v.t = "dict" -> <<Punct("{")>> \o json_dumps_items(v.items, TRUE) \o <<Punct("}")>>

json_dumps_items(items, keyed) ==
    IF Len(items) = 0 THEN <<>>
    ELSE LET x == Head(items)
             one == IF keyed
                    THEN <<Tok("str", x.key, 0), Punct(":")>> \o json_dumps(x.val)
                    ELSE json_dumps(x)
         IN one \o (IF Len(items) = 1 THEN <<>>
                    ELSE <<Punct(",")>> \o json_dumps_items(Tail(items), keyed))

RECURSIVE json_parse_value(_), json_parse_items(_, _, _)
\* the parser: the value at the head of the tokens and the tokens after it
json_parse_value(toks) ==
    LET h == Head(toks)
    IN CASE h.k = "null" -> [v |-> PyNone, rest |-> Tail(toks)]
         [] h.k = "num" -> [v |-> PyInt(h.n), rest |-> Tail(toks)]
         [] h.k = "punct" /\ h.s = "[" ->
                LET r == json_parse_items(Tail(toks), FALSE, <<>>)
                IN [v |-> PyList(r.v), rest |-> r.rest]
         [] h.k = "punct" /\ h.s = "{" ->
                LET r == json_parse_items(Tail(toks), TRUE, <<>>)
                IN [v |-> PyDict(r.v), rest |-> r.rest]

json_parse_items(toks, keyed, acc) ==
    LET h == Head(toks)
    IN IF h.k = "punct" /\ h.s \in {"]", "}"} THEN [v |-> acc, rest |-> Tail(toks)]
       ELSE IF h.k = "punct" /\ h.s = "," THEN json_parse_items(Tail(toks), keyed, acc)
       ELSE IF keyed
       THEN LET r == json_parse_value(Tail(Tail(toks)))
            IN json_parse_items(r.rest, keyed, Append(acc, [key |-> h.s, val |-> r.v]))
       ELSE LET r == json_parse_value(toks)
            IN json_parse_items(r.rest, keyed, Append(acc, r.v))

\* the deserializer of the column type, on the way out of the table
json_loads(toks) == json_parse_value(toks).v

\* config objects that requests carry: none, {}, {"line": [[0,0],[10,10]]}
LineConfig ==
    PyDict(<<[key |-> "line",
              val |-> PyList(<<PyList(<<PyInt(0), PyInt(0)>>),
                               PyList(<<PyInt(10), PyInt(10)>>)>>)]>>)

Configs == {PyNone, PyDict(<<>>), LineConfig}

\* ---- crud/alert_engine.py ----
get_alert_engine(db_engines, alert_engine_id) ==
    IF alert_engine_id \in DOMAIN db_engines THEN alert_engine_id ELSE None

\* a mutant: the camera or the engine is enough
crud_add_ok_either(db_engines, camera_id, alert_engine_id) ==
    camera_id \in CameraRows \/ get_alert_engine(db_engines, alert_engine_id) # None

crud_add_ok(db_engines, camera_id, alert_engine_id) ==
    camera_id \in CameraRows /\ get_alert_engine(db_engines, alert_engine_id) # None

\* a mutant: the pairing is not looked at
crud_remove_ok_unpaired(db_engines, assoc, camera_id, alert_engine_id) ==
    /\ camera_id \in CameraRows
    /\ get_alert_engine(db_engines, alert_engine_id) # None

crud_remove_ok(db_engines, assoc, camera_id, alert_engine_id) ==
    /\ camera_id \in CameraRows
    /\ get_alert_engine(db_engines, alert_engine_id) # None
    /\ <<camera_id, alert_engine_id>> \in assoc

\* the first row of that name
get_alert_engine_by_name(db_engines, name) ==
    LET named == {id \in DOMAIN db_engines : db_engines[id].name = name}
    IN IF named = {} THEN None ELSE CHOOSE id \in named : \A x \in named : id <= x

\* a mutant: the config is not stored
crud_create_alert_engine_drops_config(db_engines, data) ==
    Append(db_engines, [name |-> data.name, type |-> data.type,
                        config |-> json_dumps(PyNone), is_active |-> data.is_active])

\* create_alert_engine: the row AlertEngine(**model_dump()) under the next id
crud_create_alert_engine(db_engines, data) ==
    Append(db_engines, [name |-> data.name, type |-> data.type,
                        config |-> json_dumps(data.config), is_active |-> data.is_active])

crud_toggle(db_engines, alert_engine_id) ==
    [db_engines EXCEPT ![alert_engine_id].is_active = ~ @]

\* a mutant: the update is lost
crud_update_is_active_lost(db_engines, alert_engine_id, value) == db_engines

crud_update_is_active(db_engines, alert_engine_id, value) ==
    IF alert_engine_id \in DOMAIN db_engines
    THEN [db_engines EXCEPT ![alert_engine_id].is_active = value]
    ELSE db_engines

get_cameras_by_alert_engine(assoc, alert_engine_id) ==
    {c \in CameraRows : <<c, alert_engine_id>> \in assoc}

\* ---- routes/alert_engine.py: the two registries ----
\* st is [threads, registry, control]
\* a mutant: the flag is set and the key stays registered
stop_alert_polling_flag_only(st, thread_key) ==
    IF thread_key \in DOMAIN st.registry
    THEN [st EXCEPT !.control = MapSet(st.control, thread_key, TRUE)]
    ELSE st

stop_alert_polling(st, thread_key) ==
    IF thread_key \in DOMAIN st.registry
    THEN [st EXCEPT !.control = MapSet(st.control, thread_key, TRUE),
                    !.registry = MapDel(st.registry, thread_key)]
    ELSE st

\* db_session_factory(): SessionLocal() makes a new session at every call; the
\* thread that called it is the only holder of the reference
db_session_factory(caller) == [owner |-> caller, state |-> "open"]

\* a mutant: the session is left open
session_close_skipped(session) == session

\* session.close()
session_close(session) == [session EXCEPT !.state = "closed"]

\* a mutant: no test for a running thread
start_alert_polling_running_never(registry, thread_key) == FALSE

\* start_alert_polling, the test: polling already runs for the key
start_alert_polling_running(registry, thread_key) ==
    thread_key \in DOMAIN registry

\* start_alert_polling, after the test: the flag, the thread, the registry entry
start_alert_polling_spawn(st, thread_key, alert_type) ==
    [threads |-> Append(st.threads, [key |-> thread_key, alert_type |-> alert_type,
                                     pc |-> "ensure_model", active_event |-> None,
                                     session |-> db_session_factory(Len(st.threads) + 1)]),
     registry |-> MapSet(st.registry, thread_key, Len(st.threads) + 1),
     control |-> MapSet(st.control, thread_key, FALSE)]

\* the threads stop_alert_polling reaches for these cameras: the registered ones
StoppedThreads(registry, cams) ==
    {registry[<<c, PERSON>>] : c \in {x \in cams : <<x, PERSON>> \in DOMAIN registry}}

RECURSIVE StopAll(_, _)
StopAll(st, cams) ==
    IF cams = {} THEN st
    ELSE LET c == CHOOSE x \in cams : TRUE
         IN StopAll(stop_alert_polling(st, <<c, PERSON>>), cams \ {c})

\* polling is what start_alert_polling reported: "started", "already_running",
\* or "none" when the handler did not call it
Response(op, status, polling) == [op |-> op, status |-> status, polling |-> polling]

\* before the first request
NoResponse == Response("none", 0, "none")

\* the polls the functional test of the worker feeds it, and what a thread
\* that has polled nothing yet has on record
Script == <<FALSE, TRUE, TRUE, FALSE>>

\* prev_det: the last successful poll bore detections; opened: the event the
\* thread created last; dets, ops: its polls so far while they follow Script
NoHistory == [prev_det |-> FALSE, opened |-> None, on_script |-> TRUE,
              dets |-> <<>>, ops |-> <<>>]

OffScript == [prev_det |-> FALSE, opened |-> None, on_script |-> FALSE,
              dets |-> <<>>, ops |-> <<>>]

Record(h, det, op, event) ==
    LET opened == IF op = "open" THEN event ELSE h.opened
    IN IF h.on_script /\ Len(h.dets) < Len(Script) /\ Script[Len(h.dets) + 1] = det
       THEN [prev_det |-> det, opened |-> opened, on_script |-> TRUE,
             dets |-> Append(h.dets, det),
             ops |-> Append(h.ops, [op |-> op, event |-> event])]
       ELSE [OffScript EXCEPT !.prev_det = det, !.opened = opened]

Registries == [threads |-> threads, registry |-> alert_polling_threads,
               control |-> thread_control]

SetRegistries(st) ==
    /\ threads' = st.threads
    /\ alert_polling_threads' = st.registry
    /\ thread_control' = st.control
    /\ hist' = [t \in 1..Len(st.threads) |->
                    IF t <= Len(threads) THEN hist[t] ELSE NoHistory]

\* the rows the tables hold when the process starts
InitEngines ==
    <<[name |-> "entrance", type |-> HUMAN_DETECTION,
       config |-> json_dumps(PyNone), is_active |-> FALSE],
      [name |-> "gate", type |-> LINE_CROSSING,
       config |-> json_dumps(LineConfig), is_active |-> TRUE]>>

InitCameras ==
    [c \in CameraRows |->
        [is_active |-> FALSE, rtsp_url |-> IF c = 1 THEN "rtsp://camera" ELSE "",
         vehicle_tracking_enabled |-> FALSE, vehicle_tracking_config |-> None]]

NoBody == [kind |-> "none"]

\* process_extracted_frames has been called and stands before its loop
InitFrames == [pc |-> "waiting", elapsed_time |-> 0, checks |-> 0, last |-> "none"]

InitApi ==
    /\ frames = InitFrames
    /\ pending_creates = <<>>
    /\ body = NoBody
    /\ cameras = InitCameras
    /\ camera_status = <<>>
    /\ ai_calls = 0
    /\ downstream = "none"

Init ==
    /\ alert_engines = InitEngines
    /\ camera_alert_engines = {}
    /\ alert_events = <<>>
    /\ alert_polling_threads = <<>>
    /\ thread_control = <<>>
    /\ threads = <<>>
    /\ in_flight = <<>>
    /\ now = 0
    /\ resp = NoResponse
    /\ served = 0
    /\ hist = <<>>
    /\ stop_pending = {}
    /\ stopped = <<>>
    /\ InitApi

\* requests served plus polls sent so far (every poll takes one second)
Inputs == served + now

Serve ==
    /\ Inputs < MaxInputs
    /\ served' = served + 1

\* ---- POST /camera ----
\* up to the registry test of start_alert_polling; the handler ends here
\* unless a thread is to be spawned
add_alert_engine_to_camera(camera_id, alert_engine_id) ==
    /\ Serve
    /\ IF ~ crud_add_ok(alert_engines, camera_id, alert_engine_id)
       THEN /\ resp' = Response("attach", 404, "none")
            /\ UNCHANGED <<db_vars, worker_vars, in_flight, now, stop_pending, stopped, api_vars>>
       ELSE LET engine == get_alert_engine(alert_engines, alert_engine_id)
                human == engine # None /\ alert_engines[engine].type = HUMAN_DETECTION
                key == <<camera_id, PERSON>>
                running == start_alert_polling_running(alert_polling_threads, key)
            IN /\ camera_alert_engines' = camera_alert_engines
                                             \cup {<<camera_id, alert_engine_id>>}
               /\ IF human /\ ~ running
                  THEN /\ in_flight' = Append(in_flight, <<camera_id, alert_engine_id>>)
                       /\ UNCHANGED <<alert_engines, resp>>
                  ELSE /\ alert_engines' =
                            IF human THEN crud_update_is_active(alert_engines, engine, TRUE)
                            ELSE alert_engines
                       /\ resp' = Response("attach", 201,
                                     IF human THEN "already_running" ELSE "none")
                       /\ UNCHANGED in_flight
               /\ UNCHANGED <<alert_events, worker_vars, now, stop_pending, stopped, api_vars>>

\* the rest of the handler: the thread is spawned and registered, the engine
\* is set active, the response is sent
add_alert_engine_to_camera_spawn(i) ==
    LET camera_id == in_flight[i][1]
        alert_engine_id == in_flight[i][2]
        key == <<camera_id, PERSON>>
    IN /\ SetRegistries(start_alert_polling_spawn(Registries, key, HUMAN_DETECTION))
       /\ alert_engines' = crud_update_is_active(alert_engines, alert_engine_id, TRUE)
       /\ in_flight' = [j \in 1..(Len(in_flight) - 1) |->
                            IF j < i THEN in_flight[j] ELSE in_flight[j + 1]]
       /\ stop_pending' = stop_pending \ {key}
       /\ UNCHANGED <<stopped, api_vars>>
       /\ resp' = Response("attach", 201, "started")
       /\ UNCHANGED <<camera_alert_engines, alert_events, now, served>>

\* ---- DELETE /camera/{camera_id}/{alert_engine_id} ----
remove_alert_engine_from_camera(camera_id, alert_engine_id) ==
    /\ Serve
    /\ IF ~ crud_remove_ok(alert_engines, camera_alert_engines, camera_id, alert_engine_id)
       THEN /\ resp' = Response("detach", 404, "none")
            /\ UNCHANGED <<db_vars, worker_vars, in_flight, now, stop_pending, stopped, api_vars>>
       ELSE /\ camera_alert_engines' = camera_alert_engines \ {<<camera_id, alert_engine_id>>}
            /\ resp' = Response("detach", 204, "none")
            /\ UNCHANGED <<alert_engines, alert_events, worker_vars, in_flight, now, stop_pending, stopped, api_vars>>

\* ---- PATCH /{alert_engine_id}/toggle ----
toggle_alert_engine_active(alert_engine_id) ==
    /\ Serve
    /\ IF get_alert_engine(alert_engines, alert_engine_id) = None
       THEN /\ resp' = Response("toggle", 404, "none")
            /\ UNCHANGED <<db_vars, worker_vars, in_flight, now, stop_pending, stopped, api_vars>>
       ELSE LET toggled == crud_toggle(alert_engines, alert_engine_id)
                stops == toggled[alert_engine_id].type = HUMAN_DETECTION
                           /\ ~ toggled[alert_engine_id].is_active
                cams == IF stops
                        THEN get_cameras_by_alert_engine(camera_alert_engines, alert_engine_id)
                        ELSE {}
            IN /\ alert_engines' = toggled
               /\ SetRegistries(StopAll(Registries, cams))
               /\ stop_pending' = stop_pending \cup {<<c, PERSON>> : c \in cams}
               /\ stopped' = [t \in DOMAIN stopped \cup StoppedThreads(alert_polling_threads, cams)
                                 |-> IF t \in DOMAIN stopped THEN stopped[t] ELSE 0]
               /\ UNCHANGED api_vars
               /\ resp' = Response("toggle", 200, "none")
               /\ UNCHANGED <<camera_alert_engines, alert_events, in_flight, now>>

\* ---- POST / ----
\* the bodies create requests carry: a name in use, two new human_detection
\* engines asked active, engines of another type asked inactive and active
CreateInputs ==
    {[name |-> "entrance", type |-> HUMAN_DETECTION, config |-> PyNone, is_active |-> TRUE],
     [name |-> "lobby", type |-> HUMAN_DETECTION, config |-> LineConfig, is_active |-> TRUE],
     [name |-> "lobby", type |-> LINE_CROSSING, config |-> PyDict(<<>>), is_active |-> FALSE],
     [name |-> "yard", type |-> LINE_CROSSING, config |-> LineConfig, is_active |-> TRUE]}

\* a mutant: the requested is_active is kept
engine_data_as_requested(alert_engine) == alert_engine

\* model_dump() with is_active forced for human_detection
engine_data(alert_engine) ==
    IF alert_engine.type = HUMAN_DETECTION
    THEN [alert_engine EXCEPT !.is_active = FALSE]
    ELSE alert_engine

\* the response model AlertEngine read from a row
AlertEngineBody(db_engines, id) ==
    [kind |-> "engine", id |-> id, name |-> db_engines[id].name,
     type |-> db_engines[id].type, config |-> json_loads(db_engines[id].config),
     is_active |-> db_engines[id].is_active]

\* a mutant: the name is not looked up
name_taken_never(db_engines, name) == FALSE

\* the test of the handler: an engine of that name exists
name_taken(db_engines, name) == get_alert_engine_by_name(db_engines, name) # None

\* up to the name check; the insert is a later step of the same request
create_alert_engine(alert_engine) ==
    /\ Serve
    /\ IF name_taken(alert_engines, alert_engine.name)
       THEN /\ resp' = Response("create", 400, "none")
            /\ body' = NoBody
            /\ UNCHANGED pending_creates
       ELSE /\ pending_creates' = Append(pending_creates, engine_data(alert_engine))
            /\ UNCHANGED <<resp, body>>
    /\ UNCHANGED <<db_vars, worker_vars, in_flight, now, stop_pending, stopped,
                   cameras, camera_status, ai_calls, downstream, frames>>

\* db.add and db.commit: the unique constraint on name rejects a row whose
\* name was inserted since the check, and the IntegrityError is not handled
create_alert_engine_commit(i) ==
    LET data == pending_creates[i]
    IN /\ IF get_alert_engine_by_name(alert_engines, data.name) # None
          THEN /\ resp' = Response("create", 500, "none")
               /\ body' = NoBody
               /\ UNCHANGED alert_engines
          ELSE /\ alert_engines' = crud_create_alert_engine(alert_engines, data)
               /\ resp' = Response("create", 201, "none")
               /\ body' = AlertEngineBody(alert_engines', Len(alert_engines'))
       /\ pending_creates' = [j \in 1..(Len(pending_creates) - 1) |->
                                 IF j < i THEN pending_creates[j] ELSE pending_creates[j + 1]]
       /\ UNCHANGED <<camera_alert_engines, alert_events, worker_vars, in_flight, now,
                      served, stop_pending, stopped, cameras, camera_status, ai_calls,
                      downstream, frames>>

\* ---- GET /{alert_engine_id} ----
route_get_alert_engine(alert_engine_id) ==
    /\ Serve
    /\ IF get_alert_engine(alert_engines, alert_engine_id) = None
       THEN /\ resp' = Response("get", 404, "none")
            /\ body' = NoBody
       ELSE /\ resp' = Response("get", 200, "none")
            /\ body' = AlertEngineBody(alert_engines, alert_engine_id)
    /\ UNCHANGED <<db_vars, worker_vars, in_flight, now, stop_pending, stopped,
                   pending_creates, cameras, camera_status, ai_calls, downstream, frames>>

\* ---- GET /{alert_engine_id}/snapshot ----
\* the handler reads db_alert_engine.ai_annotation_path, an attribute the
\* AlertEngine model does not have: AttributeError, answered 500
get_latest_snapshot(alert_engine_id) ==
    /\ Serve
    /\ resp' = Response("snapshot", IF get_alert_engine(alert_engines, alert_engine_id) = None
                                    THEN 404 ELSE 500, "none")
    /\ body' = NoBody
    /\ UNCHANGED <<db_vars, worker_vars, in_flight, now, stop_pending, stopped,
                   pending_creates, cameras, camera_status, ai_calls, downstream, frames>>

\* ---- GET /{alert_engine_id}/latest-annotated-snapshot ----
\* a file the inference service names: annotation file n, or the plain frame
FramePath(name, n) == [dir |-> "/app/frames/", name |-> name, n |-> n]

\* str.replace("/app/frames/", "/app/shared/frames/")
SharedPath(path) ==
    [path EXCEPT !.dir = IF @ = "/app/frames/" THEN "/app/shared/frames/" ELSE @]

\* what POST /inference/latest-frame answers the handler, and which of the
\* files it names exist on the shared volume ("annotation": both do)
SnapshotResults ==
    {[kind |-> "ok", ai_annotation_path |-> f, on_disk |-> d] :
        f \in 0..MaxFrame, d \in {"annotation", "frame", "none"}}
    \cup {[kind |-> k, ai_annotation_path |-> 0, on_disk |-> "none"] :
        k \in {"not_ok", "raise"}}

\* the file served, or "none": then the handler raises 404 inside its try, and
\* the except clause below it turns that into 500
SnapshotFile(r) ==
    IF r.kind # "ok" THEN "none"
    ELSE IF r.ai_annotation_path # 0 /\ r.on_disk = "annotation" THEN "annotation"
    ELSE IF r.on_disk \in {"annotation", "frame"} THEN "frame"
    ELSE "none"

get_latest_annotated_snapshot(alert_engine_id, r) ==
    /\ Serve
    /\ IF get_alert_engine(alert_engines, alert_engine_id) = None
          \/ get_cameras_by_alert_engine(camera_alert_engines, alert_engine_id) = {}
       THEN /\ resp' = Response("annotated_snapshot", 404, "none")
            /\ body' = NoBody
       ELSE IF SnapshotFile(r) = "none"
       THEN /\ resp' = Response("annotated_snapshot", 500, "none")
            /\ body' = NoBody
       ELSE /\ resp' = Response("annotated_snapshot", 200, "none")
            /\ body' = [kind |-> "file",
                        path |-> SharedPath(FramePath(SnapshotFile(r),
                                    IF SnapshotFile(r) = "annotation"
                                    THEN r.ai_annotation_path ELSE 0))]
    /\ UNCHANGED <<db_vars, worker_vars, in_flight, now, stop_pending, stopped,
                   pending_creates, cameras, camera_status, ai_calls, downstream, frames>>

\* ---- routes/camera.py and crud/camera.py ----
\* Each camera handler is one step: what it answers is decided by what it
\* read before its first await.
CameraIds == {1, 2, 3}               \* ids a camera request may carry (3 is absent)

\* how a downstream service answers one request
DownstreamOutcomes == {"ok", "not_ok", "raise"}

\* the variables of the alert-engine router, which camera handlers leave alone
engine_vars == <<db_vars, worker_vars, in_flight, now, stop_pending, stopped,
                 pending_creates, frames>>

get_camera(db_cameras, camera_id) ==
    IF camera_id \in DOMAIN db_cameras THEN camera_id ELSE None

\* a mutant: the update is lost
crud_update_camera_lost(db_cameras, camera_id, fields, values) == db_cameras

\* update_camera: setattr for every field the update sets
crud_update_camera(db_cameras, camera_id, fields, values) ==
    IF get_camera(db_cameras, camera_id) = None THEN db_cameras
    ELSE [db_cameras EXCEPT ![camera_id] =
             [f \in DOMAIN @ |-> IF f \in fields THEN values[f] ELSE @[f]]]

\* update_camera_status: the entry is created on first use
update_camera_status(status, camera_id, is_active) ==
    MapSet(status, camera_id,
           [is_active |-> is_active,
            streaming_status |-> IF camera_id \in DOMAIN status
                                 THEN status[camera_id].streaming_status
                                 ELSE "stopped"])

\* what one handler saw of the services it called
Seen(outcomes) ==
    IF outcomes = <<>> THEN "none"
    ELSE IF \E i \in DOMAIN outcomes : outcomes[i] # "ok" THEN "failed"
    ELSE "ok"

\* the CameraUpdate bodies that requests carry: the fields set, and their values
CameraUpdates ==
    {[fields |-> {"is_active"}, is_active |-> a, vehicle_tracking_enabled |-> FALSE] :
        a \in BOOLEAN}
    \cup {[fields |-> {"vehicle_tracking_enabled"}, is_active |-> FALSE,
           vehicle_tracking_enabled |-> v] : v \in BOOLEAN}

\* ---- PUT /{camera_id}/ ----
\* decode: the answer of the video pipeline to decode or decode/stop;
\* tracking: the answer of the AI service to vehicle-tracking start or stop
update_camera(camera_id, camera_update, decode, tracking) ==
    /\ Serve
    /\ body' = NoBody
    /\ IF get_camera(cameras, camera_id) = None
       THEN /\ resp' = Response("update_camera", 404, "none")
            /\ downstream' = "none"
            /\ UNCHANGED <<cameras, camera_status, ai_calls>>
       ELSE LET current_camera == cameras[camera_id]
                active_changed == /\ "is_active" \in camera_update.fields
                                  /\ camera_update.is_active # current_camera.is_active
                decoded == IF active_changed
                              /\ (camera_update.is_active => current_camera.rtsp_url # "")
                           THEN <<decode>> ELSE <<>>
                updated == crud_update_camera(cameras, camera_id, camera_update.fields,
                                              camera_update)
                \* current_camera is the object the crud call has just written:
                \* the old flag is read from the row as it is after the update
                tracking_changed ==
                    /\ "vehicle_tracking_enabled" \in camera_update.fields
                    /\ camera_update.vehicle_tracking_enabled
                          # updated[camera_id].vehicle_tracking_enabled
                tracked == IF tracking_changed THEN <<tracking>> ELSE <<>>
            IN /\ camera_status' =
                    IF active_changed
                    THEN update_camera_status(camera_status, camera_id,
                                              camera_update.is_active)
                    ELSE camera_status
               /\ cameras' = updated
               /\ ai_calls' = ai_calls + Len(decoded) + Len(tracked)
               /\ downstream' = Seen(decoded \o tracked)
               /\ resp' = Response("update_camera", 200, "none")
    /\ UNCHANGED engine_vars

\* a mutant: an absent camera is taken for one that has tracking disabled
start_vehicle_tracking_refusal_no_404(db_cameras, camera_id) ==
    IF get_camera(db_cameras, camera_id) = None THEN 400
    ELSE IF ~ db_cameras[camera_id].vehicle_tracking_enabled THEN 400
    ELSE None

\* the status start_vehicle_tracking refuses the request with, or None
start_vehicle_tracking_refusal(db_cameras, camera_id) ==
    IF get_camera(db_cameras, camera_id) = None THEN 404
    ELSE IF ~ db_cameras[camera_id].vehicle_tracking_enabled THEN 400
    ELSE None

\* ---- POST /{camera_id}/vehicle-tracking/start/ ----
\* tracking_config: None, or a config (1); a non-200 answer raises inside the
\* try and leaves through its except clause, as 500
start_vehicle_tracking(camera_id, tracking_config, outcome) ==
    /\ Serve
    /\ body' = NoBody
    /\ IF start_vehicle_tracking_refusal(cameras, camera_id) # None
       THEN /\ resp' = Response("start_tracking",
                                start_vehicle_tracking_refusal(cameras, camera_id), "none")
            /\ downstream' = "none"
            /\ UNCHANGED <<cameras, ai_calls>>
       ELSE /\ ai_calls' = ai_calls + 1
            /\ downstream' = Seen(<<outcome>>)
            /\ IF outcome = "ok"
               THEN /\ resp' = Response("start_tracking", 200, "none")
                    /\ cameras' =
                         IF tracking_config # None
                         THEN crud_update_camera(cameras, camera_id,
                                  {"vehicle_tracking_config"},
                                  [vehicle_tracking_config |-> tracking_config])
                         ELSE cameras
               ELSE /\ resp' = Response("start_tracking", 500, "none")
                    /\ UNCHANGED cameras
    /\ UNCHANGED <<engine_vars, camera_status>>

\* ---- POST /{camera_id}/vehicle-tracking/stop/ ----
stop_vehicle_tracking(camera_id, outcome) ==
    /\ Serve
    /\ body' = NoBody
    /\ IF get_camera(cameras, camera_id) = None
       THEN /\ resp' = Response("stop_tracking", 404, "none")
            /\ downstream' = "none"
            /\ UNCHANGED ai_calls
       ELSE /\ ai_calls' = ai_calls + 1
            /\ downstream' = Seen(<<outcome>>)
            /\ resp' = Response("stop_tracking", IF outcome = "ok" THEN 200 ELSE 500, "none")
    /\ UNCHANGED <<engine_vars, cameras, camera_status>>

\* ---- PUT /{camera_id}/vehicle-tracking/enable/ ----
enable_vehicle_tracking(camera_id) ==
    /\ Serve
    /\ body' = NoBody
    /\ downstream' = "none"
    /\ IF get_camera(cameras, camera_id) = None
       THEN /\ resp' = Response("enable_tracking", 404, "none")
            /\ UNCHANGED cameras
       ELSE /\ cameras' = crud_update_camera(cameras, camera_id,
                               {"vehicle_tracking_enabled"},
                               [vehicle_tracking_enabled |-> TRUE])
            /\ resp' = Response("enable_tracking", 200, "none")
    /\ UNCHANGED <<engine_vars, camera_status, ai_calls>>

\* ---- PUT /{camera_id}/vehicle-tracking/disable/ ----
\* the stop request is sent first, and whatever comes of it is ignored
disable_vehicle_tracking(camera_id, outcome) ==
    /\ Serve
    /\ body' = NoBody
    /\ IF get_camera(cameras, camera_id) = None
       THEN /\ resp' = Response("disable_tracking", 404, "none")
            /\ downstream' = "none"
            /\ UNCHANGED <<cameras, ai_calls>>
       ELSE /\ ai_calls' = ai_calls + 1
            /\ downstream' = Seen(<<outcome>>)
            /\ cameras' = crud_update_camera(cameras, camera_id,
                               {"vehicle_tracking_enabled"},
                               [vehicle_tracking_enabled |-> FALSE])
            /\ resp' = Response("disable_tracking", 200, "none")
    /\ UNCHANGED <<engine_vars, camera_status>>

\* ---- the runtime status of cameras ----
\* get_camera_status: is_active of the entry, False for a camera without one
get_camera_status_is_active(status, camera_id) ==
    IF camera_id \in DOMAIN status THEN status[camera_id].is_active ELSE FALSE

\* update_camera_status(camera_id, streaming_status=...): is_active is left
\* as it is, and is False in an entry made by this call
update_streaming_status(status, camera_id, streaming_status) ==
    MapSet(status, camera_id,
           [is_active |-> get_camera_status_is_active(status, camera_id),
            streaming_status |-> streaming_status])

\* initialize_cameras_on_startup: the status map it leaves; decode is the
\* answer of the video pipeline to the decode requests for active cameras
initialize_cameras_on_startup(db_cameras, decode) ==
    [c \in DOMAIN db_cameras |->
        [is_active |-> db_cameras[c].is_active,
         streaming_status |->
            IF db_cameras[c].is_active /\ db_cameras[c].rtsp_url # "" /\ decode = "ok"
            THEN "streaming" ELSE "stopped"]]

\* the rows table cameras may hold when the process starts
StartCameras ==
    {[c \in CameraRows |-> [InitCameras[c] EXCEPT !.is_active = a[c]]] :
        a \in [CameraRows -> BOOLEAN]}

\* the state when the first request is served: startup has run to its end,
\* or has failed reading the cameras and left the status map empty
InitCameraStatus ==
    /\ alert_engines = InitEngines
    /\ camera_alert_engines = {}
    /\ alert_events = <<>>
    /\ alert_polling_threads = <<>>
    /\ thread_control = <<>>
    /\ threads = <<>>
    /\ in_flight = <<>>
    /\ now = 0
    /\ resp = NoResponse
    /\ served = 0
    /\ hist = <<>>
    /\ stop_pending = {}
    /\ stopped = <<>>
    /\ pending_creates = <<>>
    /\ body = NoBody
    /\ cameras \in StartCameras
    /\ camera_status \in {initialize_cameras_on_startup(cameras, d) : d \in DownstreamOutcomes}
                          \cup {<<>>}
    /\ ai_calls = 0
    /\ downstream = "none"
    /\ frames = InitFrames

\* ---- POST / (cameras) ----
\* the CameraCreate bodies: a camera with an rtsp_url, asked active or not
CameraCreates ==
    {[InitCameras[1] EXCEPT !.is_active = a] : a \in BOOLEAN}

\* the id the table gives the next row
NewCameraId(db_cameras) ==
    IF DOMAIN db_cameras = {} THEN 1
    ELSE 1 + CHOOSE c \in DOMAIN db_cameras : \A d \in DOMAIN db_cameras : d <= c

crud_create_camera(db_cameras, camera) ==
    MapSet(db_cameras, NewCameraId(db_cameras), camera)

\* decode: the answer to the auto-start; info: the answer to video-info-url
create_camera(camera, decode, info) ==
    /\ Serve
    /\ NewCameraId(cameras) \in CameraIds
    /\ body' = NoBody
    /\ LET id == NewCameraId(cameras)
           created == crud_create_camera(cameras, camera)
           calls == (IF created[id].is_active /\ camera.rtsp_url # "" THEN <<decode>> ELSE <<>>)
                    \o (IF camera.rtsp_url # "" THEN <<info>> ELSE <<>>)
       IN /\ cameras' = created
          /\ camera_status' = update_streaming_status(
                                  update_camera_status(camera_status, id, created[id].is_active),
                                  id, "stopped")
          /\ ai_calls' = ai_calls + Len(calls)
          /\ downstream' = Seen(calls)
          /\ resp' = Response("create_camera", 200, "none")
    /\ UNCHANGED engine_vars

\* ---- POST /{camera_id}/validate-video/ ----
\* what video-info-url answers: a stream with a codec, one without, a
\* non-200 answer, an exception
VideoInfoOutcomes == {"codec", "no_codec", "not_ok", "raise"}

validate_camera_video(camera_id, info, decode) ==
    /\ Serve
    /\ body' = NoBody
    /\ IF get_camera(cameras, camera_id) = None
       THEN /\ resp' = Response("validate_video", 404, "none")
            /\ downstream' = "none"
            /\ UNCHANGED <<camera_status, ai_calls>>
       ELSE IF cameras[camera_id].rtsp_url = ""
       THEN /\ resp' = Response("validate_video", 200, "none")
            /\ downstream' = "none"
            /\ UNCHANGED <<camera_status, ai_calls>>
       ELSE /\ camera_status' =
                  IF info = "codec"
                  THEN update_streaming_status(
                           update_camera_status(camera_status, camera_id, TRUE),
                           camera_id, "stopped")
                  ELSE camera_status
            /\ ai_calls' = ai_calls + 2
            /\ downstream' = Seen(<<IF info \in {"codec", "no_codec"} THEN "ok" ELSE info,
                                    decode>>)
            /\ resp' = Response("validate_video", 200, "none")
    /\ UNCHANGED <<engine_vars, cameras>>

\* ---- POST /{camera_id}/activate/ ----
\* how the activation went: decoding started and seen running, decoding
\* already running, the decode request failed, the status request failed or
\* did not report a running decoder
ActivateOutcomes == {"activated", "already_running", "decode_failed", "status_failed"}

activate_camera(camera_id, outcome) ==
    /\ Serve
    /\ body' = NoBody
    /\ IF get_camera(cameras, camera_id) = None \/ cameras[camera_id].rtsp_url = ""
       THEN /\ resp' = Response("activate", IF get_camera(cameras, camera_id) = None
                                            THEN 404 ELSE 400, "none")
            /\ downstream' = "none"
            /\ UNCHANGED <<camera_status, ai_calls>>
       ELSE /\ camera_status' =
                  IF outcome = "activated"
                  THEN update_streaming_status(camera_status, camera_id, "streaming")
                  ELSE camera_status
            /\ ai_calls' = ai_calls + (IF outcome \in {"activated", "status_failed"}
                                       THEN 2 ELSE 1)
            /\ downstream' = IF outcome \in {"activated", "already_running"}
                             THEN "ok" ELSE "failed"
            /\ resp' = Response("activate", 200, "none")
    /\ UNCHANGED <<engine_vars, cameras>>

\* ---- POST /{camera_id}/deactivate/ ----
deactivate_camera(camera_id, outcome) ==
    /\ Serve
    /\ body' = NoBody
    /\ IF get_camera(cameras, camera_id) = None
       THEN /\ resp' = Response("deactivate", 404, "none")
            /\ downstream' = "none"
            /\ UNCHANGED <<camera_status, ai_calls>>
       ELSE /\ camera_status' =
                  IF outcome = "ok"
                  THEN update_streaming_status(camera_status, camera_id, "stopped")
                  ELSE camera_status
            /\ ai_calls' = ai_calls + 1
            /\ downstream' = Seen(<<outcome>>)
            /\ resp' = Response("deactivate", IF outcome = "ok" THEN 200 ELSE 500, "none")
    /\ UNCHANGED <<engine_vars, cameras>>

\* The camera router: the handlers that write the runtime status
NextCameraStatus ==
    \/ \E c \in CameraCreates, d \in DownstreamOutcomes, i \in DownstreamOutcomes :
          create_camera(c, d, i)
    \/ \E c \in CameraIds, u \in CameraUpdates, d \in DownstreamOutcomes,
          t \in DownstreamOutcomes : update_camera(c, u, d, t)
    \/ \E c \in CameraIds, i \in VideoInfoOutcomes, d \in DownstreamOutcomes :
          validate_camera_video(c, i, d)
    \/ \E c \in CameraIds, o \in ActivateOutcomes : activate_camera(c, o)
    \/ \E c \in CameraIds, o \in DownstreamOutcomes : deactivate_camera(c, o)

SpecCameraStatus == InitCameraStatus /\ [][NextCameraStatus]_vars

\* ---- license_plate_detection.py: process_extracted_frames ----
max_wait_time == 300
check_interval == 5

\* what one decode-status request comes to: 200 with status "completed" and
\* frames, "completed" without frames, "running", "error" (an HTTPException
\* raised inside the try), any other status, a non-200 answer, an exception
StatusOutcomes ==
    {"completed", "completed_no_frames", "running", "error", "other", "not_ok", "raise"}

\* the frames are ready: the loop is left by break
frames_ready(outcome) == outcome = "completed"

\* a mutant: the except clause sleeps and does not count the time
elapsed_after_check_except_uncounted(elapsed_time, outcome) ==
    IF outcome \in {"error", "raise"} THEN elapsed_time
    ELSE elapsed_time + check_interval

\* elapsed_time after a check that did not break: the sleep at the end of
\* the try, or the sleep of the except clause
elapsed_after_check(elapsed_time, outcome) ==
    IF outcome \in {"error", "raise"} THEN elapsed_time + check_interval
    ELSE elapsed_time + check_interval

\* the steps of the function leave everything else alone
FramesOnly ==
    UNCHANGED <<db_vars, worker_vars, in_flight, now, resp, served, stop_pending, stopped,
                pending_creates, body, cameras, camera_status, ai_calls, downstream>>

\* one iteration of the while loop; checks counts the status requests, and
\* stops counting one past the number the loop allows
process_extracted_frames_check(outcome) ==
    /\ frames.pc = "waiting"
    /\ frames.elapsed_time < max_wait_time
    /\ frames' = [pc |-> IF frames_ready(outcome) THEN "after_loop" ELSE "waiting",
                  elapsed_time |-> IF frames_ready(outcome) THEN frames.elapsed_time
                                   ELSE elapsed_after_check(frames.elapsed_time, outcome),
                  checks |-> IF frames.checks * check_interval <= max_wait_time
                             THEN frames.checks + 1 ELSE frames.checks,
                  last |-> outcome]
    /\ FramesOnly

\* the while test fails
process_extracted_frames_loop_ends ==
    /\ frames.pc = "waiting"
    /\ ~ (frames.elapsed_time < max_wait_time)
    /\ frames' = [frames EXCEPT !.pc = "after_loop"]
    /\ FramesOnly

\* after the loop: the timeout error, or run_ai_inference_on_frames
process_extracted_frames_after_loop ==
    /\ frames.pc = "after_loop"
    /\ frames' = [frames EXCEPT !.pc = IF frames.elapsed_time >= max_wait_time
                                       THEN "timeout" ELSE "inference"]
    /\ FramesOnly

NextFrames ==
    \/ \E o \in StatusOutcomes : process_extracted_frames_check(o)
    \/ process_extracted_frames_loop_ends
    \/ process_extracted_frames_after_loop

SpecFrames == Init /\ [][NextFrames]_vars

\* every await of the function returns or raises, so the function goes on
SpecFramesFair == SpecFrames /\ WF_vars(NextFrames)

\* ---- crud/alert_event.py ----
create_alert_event(events, event) == Append(events, event)

\* a mutant: model_dump() without exclude_unset writes the unset end_time too
update_alert_event_unset_too(events, event_id, update) ==
    IF event_id \in DOMAIN events
    THEN [events EXCEPT ![event_id] =
             [f \in DOMAIN @ |->
                 IF f \in DOMAIN update THEN update[f]
                 ELSE IF f = "end_time" THEN None ELSE @[f]]]
    ELSE events

\* update is the AlertEventUpdate as model_dump(exclude_unset=True) gives it:
\* a record of the fields that were set
update_alert_event(events, event_id, update) ==
    IF event_id \in DOMAIN events
    THEN [events EXCEPT ![event_id] =
             [f \in DOMAIN @ |-> IF f \in DOMAIN update THEN update[f] ELSE @[f]]]
    ELSE events

close_alert_event(events, event_id, end_time) ==
    IF event_id \in DOMAIN events
    THEN [events EXCEPT ![event_id].end_time = end_time]
    ELSE events

get_active_event(events, camera_id, alert_type) ==
    LET open == {i \in DOMAIN events : /\ events[i].camera_id = camera_id
                                       /\ events[i].alert_type = alert_type
                                       /\ events[i].end_time = None}
    IN IF open = {} THEN None ELSE CHOOSE i \in open : \A j \in open : i <= j

\* ---- the polling worker: start_alert_polling.polling_loop ----
Live(t) == threads[t].pc # "done"

\* the finally clause: session.close() and the stop flag of the key is dropped
polling_loop_finally(control, thread_key) ==
    IF thread_key \in DOMAIN control THEN MapDel(control, thread_key) ELSE control

\* the locals of a thread that has returned are gone
Exit(t) ==
    /\ threads' = [threads EXCEPT ![t].pc = "done", ![t].active_event = None,
                                  ![t].session = session_close(@)]
    /\ thread_control' = polling_loop_finally(thread_control, threads[t].key)
    /\ hist' = [hist EXCEPT ![t] = OffScript]

\* GET /model/info, then POST /model/load when the model is not reported loaded
ModelInfoOutcomes == {"loaded", "not_loaded", "raise"}
ModelLoadOutcomes == {"ok", "not_ok", "raise"}

\* the load is requested only after an info that does not report the model
ModelOutcomes ==
    {<<i, "none">> : i \in ModelInfoOutcomes \ {"not_loaded"}}
    \cup {<<"not_loaded", l>> : l \in ModelLoadOutcomes}

\* a mutant: the worker goes on whatever the service answered
model_loaded_whatever(info, load) == TRUE

\* whether the worker reaches its loop
model_loaded(info, load) ==
    IF info = "raise" THEN FALSE
    ELSE IF info = "loaded" THEN TRUE
    ELSE load = "ok"

polling_loop_ensure_model(t, info, load) ==
    /\ threads[t].pc = "ensure_model"
    /\ IF model_loaded(info, load)
       THEN /\ threads' = [threads EXCEPT ![t].pc = "loop"]
            /\ UNCHANGED <<thread_control, hist>>
       ELSE Exit(t)
    /\ UNCHANGED <<db_vars, alert_polling_threads, in_flight, now, resp, served, stop_pending, stopped, api_vars>>

\* the while test of the loop
StopObserved(control, thread_key) ==
    ~ (thread_key \notin DOMAIN control \/ ~ control[thread_key])

polling_loop_test(t) ==
    /\ threads[t].pc = "loop"
    /\ IF StopObserved(thread_control, threads[t].key)
       THEN /\ Exit(t)
            /\ UNCHANGED stopped
       ELSE /\ threads' = [threads EXCEPT ![t].pc = "poll"]
            /\ stopped' = IF t \in DOMAIN stopped
                          THEN [stopped EXCEPT ![t] = IF @ < 2 THEN @ + 1 ELSE @]
                          ELSE stopped
            /\ UNCHANGED <<thread_control, hist>>
    /\ UNCHANGED <<db_vars, alert_polling_threads, in_flight, now, resp, served, stop_pending, api_vars>>

\* POST /inference/latest-frame and the body of the loop, up to the sleep
\* frame f > 0 bears the detection list f and the annotation file f; frame 0
\* bears no detection
PollResults ==
    {[kind |-> "ok", detections |-> f, ai_annotation_path |-> f] : f \in 0..MaxFrame}
    \cup {[kind |-> k, detections |-> 0, ai_annotation_path |-> None] :
        k \in {"not_ok", "raise"}}

\* a mutant: the reference is kept when the event is closed
polling_loop_body_keeps_reference(events, thread, r, time) ==
    IF r.kind # "ok"
    THEN [events |-> events, active_event |-> thread.active_event, op |-> "failed"]
    ELSE IF r.detections # 0
    THEN IF thread.active_event = None
         THEN [events |-> create_alert_event(events,
                              [camera_id |-> thread.key[1],
                               alert_type |-> thread.alert_type,
                               start_time |-> time,
                               end_time |-> None,
                               ai_annotation_path |-> r.ai_annotation_path,
                               detection_results |-> r.detections]),
               active_event |-> Len(events) + 1,
               op |-> "open"]
         ELSE [events |-> update_alert_event(events, thread.active_event,
                              [ai_annotation_path |-> r.ai_annotation_path,
                               detection_results |-> r.detections]),
               active_event |-> thread.active_event,
               op |-> "update"]
    ELSE IF thread.active_event # None
         THEN [events |-> close_alert_event(events, thread.active_event, time),
               active_event |-> thread.active_event,
               op |-> "close"]
         ELSE [events |-> events, active_event |-> None, op |-> "none"]

\* what the body does with a result: the new store, the new reference, the operation
polling_loop_body(events, thread, r, time) ==
    IF r.kind # "ok"
    THEN [events |-> events, active_event |-> thread.active_event, op |-> "failed"]
    ELSE IF r.detections # 0
    THEN IF thread.active_event = None
         THEN [events |-> create_alert_event(events,
                              [camera_id |-> thread.key[1],
                               alert_type |-> thread.alert_type,
                               start_time |-> time,
                               end_time |-> None,
                               ai_annotation_path |-> r.ai_annotation_path,
                               detection_results |-> r.detections]),
               active_event |-> Len(events) + 1,
               op |-> "open"]
         ELSE [events |-> update_alert_event(events, thread.active_event,
                              [ai_annotation_path |-> r.ai_annotation_path,
                               detection_results |-> r.detections]),
               active_event |-> thread.active_event,
               op |-> "update"]
    ELSE IF thread.active_event # None
         THEN [events |-> close_alert_event(events, thread.active_event, time),
               active_event |-> None,
               op |-> "close"]
         ELSE [events |-> events, active_event |-> None, op |-> "none"]

polling_loop_poll(t, r) ==
    /\ threads[t].pc = "poll"
    /\ Inputs < MaxInputs
    /\ now' = now + 1
    /\ IF r.kind = "raise"
       THEN /\ Exit(t)
            /\ UNCHANGED alert_events
       ELSE LET out == polling_loop_body(alert_events, threads[t], r, now + 1)
            IN /\ alert_events' = out.events
               /\ threads' = [threads EXCEPT ![t].pc = "loop",
                                             ![t].active_event = out.active_event]
               /\ hist' = IF r.kind = "ok"
                          THEN [hist EXCEPT ![t] =
                                   Record(@, r.detections # 0, out.op,
                                          IF out.op = "open" THEN out.active_event
                                          ELSE threads[t].active_event)]
                          ELSE hist
               /\ UNCHANGED thread_control
    /\ UNCHANGED <<alert_engines, camera_alert_engines, alert_polling_threads, in_flight,
                   resp, served, stop_pending, stopped, api_vars>>

Next ==
    \/ \E p \in PairInputs : add_alert_engine_to_camera(p[1], p[2])
    \/ \E i \in DOMAIN in_flight : add_alert_engine_to_camera_spawn(i)
    \/ \E p \in PairInputs : remove_alert_engine_from_camera(p[1], p[2])
    \/ \E e \in EngineIds : toggle_alert_engine_active(e)
    \/ \E t \in DOMAIN threads, m \in ModelOutcomes :
            polling_loop_ensure_model(t, m[1], m[2])
    \/ \E t \in DOMAIN threads : polling_loop_test(t)
    \/ \E t \in DOMAIN threads, r \in PollResults : polling_loop_poll(t, r)

Spec == Init /\ [][Next]_vars

\* The system with camera 1 under watch: the state in which the attach of
\* engine 1 to camera 1 leaves the initial state, its worker not yet started
\* on the model check.  The budget of inputs counts from here.
InitWatching ==
    /\ alert_engines = [InitEngines EXCEPT ![1].is_active = TRUE]
    /\ camera_alert_engines = {<<1, 1>>}
    /\ alert_events = <<>>
    /\ alert_polling_threads = (<<1, PERSON>> :> 1)
    /\ thread_control = (<<1, PERSON>> :> FALSE)
    /\ threads = <<[key |-> <<1, PERSON>>, alert_type |-> HUMAN_DETECTION,
                    pc |-> "ensure_model", active_event |-> None,
                    session |-> db_session_factory(1)]>>
    /\ in_flight = <<>>
    /\ now = 0
    /\ resp = Response("attach", 201, "started")
    /\ served = 0
    /\ hist = <<NoHistory>>
    /\ stop_pending = {}
    /\ stopped = <<>>
    /\ InitApi

SpecWatching == InitWatching /\ [][Next]_vars

\* The handlers of the router that create and read engines
EngineHandlers ==
    \/ \E a \in CreateInputs : create_alert_engine(a)
    \/ \E i \in DOMAIN pending_creates : create_alert_engine_commit(i)
    \/ \E e \in EngineIds : route_get_alert_engine(e)
    \/ \E e \in EngineIds : get_latest_snapshot(e)
    \/ \E e \in EngineIds, r \in SnapshotResults : get_latest_annotated_snapshot(e, r)

\* The whole router, with its workers
NextRegistry == Next \/ EngineHandlers

SpecRegistry == Init /\ [][NextRegistry]_vars

\* The handlers of the router alone: requests are served while no worker
\* thread is scheduled
NextHandlers ==
    \/ EngineHandlers
    \/ \E p \in PairInputs : add_alert_engine_to_camera(p[1], p[2])
    \/ \E i \in DOMAIN in_flight : add_alert_engine_to_camera_spawn(i)
    \/ \E p \in PairInputs : remove_alert_engine_from_camera(p[1], p[2])
    \/ \E e \in EngineIds : toggle_alert_engine_active(e)

SpecHandlers == Init /\ [][NextHandlers]_vars

\* ---- DELETE /{alert_engine_id} ----
\* db.delete(row): the ORM deletes the row and, through the many-to-many
\* relationship AlertEngine.cameras, its rows of the association table
crud_delete_alert_engine(db, alert_engine_id) ==
    IF get_alert_engine(db.alert_engines, alert_engine_id) = None THEN db
    ELSE [alert_engines |-> MapDel(db.alert_engines, alert_engine_id),
          camera_alert_engines |-> {p \in db.camera_alert_engines : p[2] # alert_engine_id}]

delete_alert_engine(alert_engine_id) ==
    /\ Serve
    /\ LET db == [alert_engines |-> alert_engines,
                  camera_alert_engines |-> camera_alert_engines]
           success == get_alert_engine(alert_engines, alert_engine_id) # None
           after == crud_delete_alert_engine(db, alert_engine_id)
       IN /\ alert_engines' = after.alert_engines
          /\ camera_alert_engines' = after.camera_alert_engines
          /\ resp' = Response("delete", IF success THEN 204 ELSE 404, "none")
    /\ UNCHANGED <<alert_events, worker_vars, in_flight, now, stop_pending, stopped, api_vars>>

\* The router of Spec with the delete handler
NextDelete == Next \/ \E e \in EngineIds : delete_alert_engine(e)

SpecDelete == Init /\ [][NextDelete]_vars

\* ---- the event store on its own: crud/alert_event.py called with any input ----
\* ids a call may carry: those of the rows, and one that no row has
StoreIds == 1..MaxInputs

\* the AlertEventUpdate bodies: the one the worker sends, the path alone set
\* to None, the end time alone set to None, and nothing set
StoreUpdates ==
    {[ai_annotation_path |-> f, detection_results |-> f] : f \in 1..MaxFrame}
    \cup {[ai_annotation_path |-> None], [end_time |-> None], << >>}

\* what a crud function returned: the row, or None
Returned(op, events, event_id) ==
    IF event_id \in DOMAIN events THEN [kind |-> "event", op |-> op, id |-> event_id]
    ELSE NoBody

\* every call is made at a later time than the one before
StoreCall ==
    /\ Inputs < MaxInputs
    /\ now' = now + 1
    /\ UNCHANGED <<alert_engines, camera_alert_engines, worker_vars, in_flight, resp, served,
                   stop_pending, stopped, pending_creates, cameras, camera_status,
                   ai_calls, downstream, frames>>

store_create_alert_event(camera_id, f) ==
    /\ StoreCall
    /\ alert_events' = create_alert_event(alert_events,
                           [camera_id |-> camera_id, alert_type |-> HUMAN_DETECTION,
                            start_time |-> now + 1, end_time |-> None,
                            ai_annotation_path |-> f, detection_results |-> f])
    /\ body' = Returned("create", alert_events', Len(alert_events'))

store_update_alert_event(event_id, update) ==
    /\ StoreCall
    /\ alert_events' = update_alert_event(alert_events, event_id, update)
    /\ body' = Returned("update", alert_events, event_id)

store_close_alert_event(event_id) ==
    /\ StoreCall
    /\ alert_events' = close_alert_event(alert_events, event_id, now + 1)
    /\ body' = Returned("close", alert_events, event_id)

store_get_active_event(camera_id) ==
    /\ StoreCall
    /\ body' = Returned("get_active", alert_events,
                        get_active_event(alert_events, camera_id, HUMAN_DETECTION))
    /\ UNCHANGED alert_events

NextStore ==
    \/ \E c \in CameraRows, f \in 1..MaxFrame : store_create_alert_event(c, f)
    \/ \E id \in StoreIds, u \in StoreUpdates : store_update_alert_event(id, u)
    \/ \E id \in StoreIds : store_close_alert_event(id)
    \/ \E c \in CameraRows : store_get_active_event(c)

SpecStore == Init /\ [][NextStore]_vars

\* The camera router: update and vehicle tracking
NextCameras ==
    \/ \E c \in CameraIds, u \in CameraUpdates, d \in DownstreamOutcomes,
          t \in DownstreamOutcomes : update_camera(c, u, d, t)
    \/ \E c \in CameraIds, cfg \in {None, 1}, o \in DownstreamOutcomes :
          start_vehicle_tracking(c, cfg, o)
    \/ \E c \in CameraIds, o \in DownstreamOutcomes : stop_vehicle_tracking(c, o)
    \/ \E c \in CameraIds : enable_vehicle_tracking(c)
    \/ \E c \in CameraIds, o \in DownstreamOutcomes : disable_vehicle_tracking(c, o)

SpecCameras == Init /\ [][NextCameras]_vars

\* ---------------------------------------------------------------------------
\* Properties
\* ---------------------------------------------------------------------------
OpenEvents(camera_id, alert_type) ==
    {i \in DOMAIN alert_events : /\ alert_events[i].camera_id = camera_id
                                 /\ alert_events[i].alert_type = alert_type
                                 /\ alert_events[i].end_time = None}

LiveWorkers(thread_key) ==
    {t \in DOMAIN threads : Live(t) /\ threads[t].key = thread_key}

OkResults == {r \in PollResults : r.kind = "ok"}

FailedResults == {r \in PollResults : r.kind # "ok"}

\* C1: at every moment each (camera, alert type) pair has at most one event
\* whose end_time is null.
C1_AtMostOneOpenEvent ==
    \A c \in CameraRows : Cardinality(OpenEvents(c, HUMAN_DETECTION)) <= 1

\* C2: a worker opens an event exactly at the first poll of a run of polls
\* with detections, updates that event at the later polls of the run, closes
\* it at the first poll without detections, and does nothing at a poll without
\* detections when no run is under way; after the polls [none, detections,
\* detections, none] it has done exactly: nothing, open e, update e, close e.
ScriptDone(t) == hist[t].on_script /\ hist[t].dets = Script

ScriptOps(t) ==
    LET e == hist[t].ops[2].event
    IN /\ hist[t].ops = << [op |-> "none", event |-> None], [op |-> "open", event |-> e],
                           [op |-> "update", event |-> e], [op |-> "close", event |-> e] >>
       /\ e \in DOMAIN alert_events
       /\ alert_events[e].end_time # None
       /\ threads[t].active_event = None

PollEffect(t, r) ==
    LET det == r.detections # 0
        run == hist[t].prev_det
        e == hist[t].opened
        n == Len(alert_events)
    IN /\ det /\ ~ run =>
            /\ Len(alert_events') = n + 1
            /\ SubSeq(alert_events', 1, n) = alert_events
            /\ alert_events'[n + 1].end_time = None
            /\ alert_events'[n + 1].camera_id = threads[t].key[1]
            /\ alert_events'[n + 1].detection_results = r.detections
            /\ threads'[t].active_event = n + 1
       /\ det /\ run =>
            /\ e \in DOMAIN alert_events
            /\ alert_events' = [alert_events EXCEPT
                                   ![e].detection_results = r.detections,
                                   ![e].ai_annotation_path = r.ai_annotation_path]
            /\ alert_events'[e].end_time = None
            /\ threads'[t].active_event = e
       /\ ~ det /\ run =>
            /\ e \in DOMAIN alert_events
            /\ alert_events' = [alert_events EXCEPT ![e].end_time = now']
            /\ alert_events[e].end_time = None
            /\ threads'[t].active_event = None
       /\ ~ det /\ ~ run =>
            /\ alert_events' = alert_events
            /\ threads'[t].active_event = None
            /\ threads[t].active_event = None

C2_OneEventPerDetectionRun ==
    [][ /\ \A t \in DOMAIN threads, r \in OkResults :
              polling_loop_poll(t, r) => PollEffect(t, r)
        /\ \A t \in DOMAIN threads' : ScriptDone(t)' => ScriptOps(t)' ]_vars

C2_Witness == \E t \in DOMAIN threads : ScriptDone(t) /\ ScriptOps(t)

\* C3: at every moment each (camera, model) key has at most one live worker
\* thread.
C3_AtMostOneWorkerPerKey ==
    \A c \in CameraRows : Cardinality(LiveWorkers(<<c, PERSON>>)) <= 1

\* C4: an attach that calls start_alert_polling for a key that is in the
\* registry spawns no thread, now or later, and leaves the registry, the
\* stop flags, the workers and the event store as they were.
StartsPolling(camera_id, alert_engine_id) ==
    /\ crud_add_ok(alert_engines, camera_id, alert_engine_id)
    /\ alert_engines[alert_engine_id].type = HUMAN_DETECTION

C4_StartIsIdempotent ==
    [][ \A p \in PairInputs :
          ( /\ add_alert_engine_to_camera(p[1], p[2])
            /\ StartsPolling(p[1], p[2])
            /\ <<p[1], PERSON>> \in DOMAIN alert_polling_threads )
          => /\ UNCHANGED <<threads, alert_polling_threads, thread_control>>
             /\ UNCHANGED <<alert_events, hist, in_flight>> ]_vars

C4_Witness ==
    /\ resp = Response("attach", 201, "already_running")
    /\ Len(threads) = 1
    /\ DOMAIN alert_polling_threads = {threads[1].key}
    /\ in_flight = <<>>

\* C5: a worker whose key was stopped by a toggle, and not started again
\* since, leaves its loop at its next loop test.
C5_StopObservedAtNextTest ==
    [][ \A t \in DOMAIN threads :
          ( /\ threads[t].pc = "loop"
            /\ threads'[t].pc # "loop"
            /\ threads[t].key \in stop_pending )
          => threads'[t].pc = "done" ]_vars

\* C6: a toggle of an existing engine inverts is_active and nothing else in
\* the engine table; when the engine is a human_detection engine and is now
\* inactive, no camera attached to it keeps its ("person") key in the
\* registry and every key that was registered has its stop flag set; any
\* other toggle leaves the registry and the flags alone; no toggle spawns a
\* thread.
AttachedCameras(alert_engine_id) ==
    {c \in CameraRows : <<c, alert_engine_id>> \in camera_alert_engines}

ToggleEffect(e) ==
    LET off == alert_engines[e].type = HUMAN_DETECTION /\ alert_engines[e].is_active
        keys == {<<c, PERSON>> : c \in AttachedCameras(e)}
    IN /\ alert_engines'[e].is_active = ~ alert_engines[e].is_active
       /\ alert_engines'[e].type = alert_engines[e].type
       /\ \A x \in DOMAIN alert_engines \ {e} : alert_engines'[x] = alert_engines[x]
       /\ DOMAIN alert_engines' = DOMAIN alert_engines
       /\ threads' = threads
       /\ in_flight' = in_flight
       /\ IF off
          THEN /\ DOMAIN alert_polling_threads' = DOMAIN alert_polling_threads \ keys
               /\ \A k \in DOMAIN alert_polling_threads' :
                     alert_polling_threads'[k] = alert_polling_threads[k]
               /\ \A k \in keys \cap DOMAIN alert_polling_threads :
                     k \in DOMAIN thread_control' /\ thread_control'[k]
               /\ \A k \in DOMAIN thread_control \ keys :
                     k \in DOMAIN thread_control' /\ thread_control'[k] = thread_control[k]
          ELSE UNCHANGED <<alert_polling_threads, thread_control>>

C6_ToggleStopsAttachedWorkers ==
    [][ \A e \in DOMAIN alert_engines :
          toggle_alert_engine_active(e) => ToggleEffect(e) ]_vars

C6_Witness ==
    /\ resp = Response("toggle", 200, "none")
    /\ ~ alert_engines[1].is_active
    /\ AttachedCameras(1) = CameraRows
    /\ stop_pending = {<<c, PERSON>> : c \in CameraRows}
    /\ DOMAIN alert_polling_threads = {}
    /\ \A t \in DOMAIN threads : Live(t) /\ thread_control[threads[t].key]
    /\ Len(threads) = 2

\* C7: an attach that names a camera or an engine that does not exist is
\* answered 404 and changes no table, no registry and no thread.
C7_AttachNotFound ==
    [][ \A p \in PairInputs :
          ( /\ add_alert_engine_to_camera(p[1], p[2])
            /\ (p[1] \notin CameraRows \/ p[2] \notin DOMAIN alert_engines) )
          => /\ resp'.status = 404
             /\ UNCHANGED <<alert_engines, camera_alert_engines, alert_events>>
             /\ UNCHANGED <<threads, alert_polling_threads, thread_control, in_flight>> ]_vars

C7_Witness ==
    /\ resp = Response("attach", 404, "none")
    /\ served = 1

\* C8 as stated: an attach that is answered 201 has spawned a worker thread
\* for (camera, "person") and set is_active exactly when the engine is a
\* human_detection engine.
Answered(camera_id, alert_engine_id) ==
    \/ /\ add_alert_engine_to_camera(camera_id, alert_engine_id)
       /\ crud_add_ok(alert_engines, camera_id, alert_engine_id)
       /\ in_flight' = in_flight
    \/ \E i \in DOMAIN in_flight :
          /\ in_flight[i] = <<camera_id, alert_engine_id>>
          /\ add_alert_engine_to_camera_spawn(i)

C8_AttachSpawnsWorker ==
    [][ \A p \in PairInputs : Answered(p[1], p[2])
          => IF alert_engines[p[2]].type = HUMAN_DETECTION
             THEN /\ Len(threads') = Len(threads) + 1
                  /\ threads'[Len(threads')].key = <<p[1], PERSON>>
                  /\ alert_engines'[p[2]].is_active
             ELSE /\ threads' = threads
                  /\ alert_engines' = alert_engines ]_vars

\* C8 amended: an attach of a human_detection engine that is answered 201
\* has set the engine active, and has spawned a worker thread for
\* (camera, "person"), registered it and cleared its stop flag exactly when
\* start_alert_polling found the key absent from the registry; an attach of
\* an engine of another type spawns nothing and leaves the engines, the
\* registry and the flags alone.
C8_AttachEnsuresWorker ==
    [][ \A p \in PairInputs :
          LET key == <<p[1], PERSON>>
              human == alert_engines[p[2]].type = HUMAN_DETECTION
          IN /\ ( /\ add_alert_engine_to_camera(p[1], p[2])
                  /\ crud_add_ok(alert_engines, p[1], p[2]) )
                => /\ <<p[1], p[2]>> \in camera_alert_engines'
                   /\ UNCHANGED <<threads, alert_polling_threads, thread_control>>
                   /\ IF human /\ key \notin DOMAIN alert_polling_threads
                      THEN /\ in_flight' = Append(in_flight, <<p[1], p[2]>>)
                           /\ UNCHANGED <<alert_engines, resp>>
                      ELSE /\ resp'.status = 201
                           /\ UNCHANGED in_flight
                           /\ IF human THEN alert_engines'[p[2]].is_active
                              ELSE alert_engines' = alert_engines
             /\ \A i \in DOMAIN in_flight :
                  ( in_flight[i] = <<p[1], p[2]>> /\ add_alert_engine_to_camera_spawn(i) )
                  => /\ human
                     /\ resp'.status = 201
                     /\ alert_engines'[p[2]].is_active
                     /\ threads' = Append(threads, threads'[Len(threads')])
                     /\ threads'[Len(threads')].key = key
                     /\ threads'[Len(threads')].pc = "ensure_model"
                     /\ alert_polling_threads'[key] = Len(threads')
                     /\ ~ thread_control'[key]
                     /\ Len(in_flight') = Len(in_flight) - 1 ]_vars

C8_Witness ==
    /\ resp = Response("attach", 201, "started")
    /\ alert_engines[1].is_active
    /\ Len(threads) = 2
    /\ threads[2].pc = "ensure_model"
    /\ <<1, 2>> \in camera_alert_engines
    /\ in_flight = <<>>

\* C9: a detach is answered 404 and changes nothing unless the camera, the
\* engine and their pairing exist; then it removes that pairing and leaves
\* the engines, the events, the registry, the stop flags and every worker as
\* they were.
C9_DetachFrame ==
    [][ \A p \in PairInputs :
          remove_alert_engine_from_camera(p[1], p[2])
          => IF /\ p[1] \in CameraRows
                /\ p[2] \in DOMAIN alert_engines
                /\ <<p[1], p[2]>> \in camera_alert_engines
             THEN /\ resp'.status = 204
                  /\ camera_alert_engines' = camera_alert_engines \ {<<p[1], p[2]>>}
                  /\ UNCHANGED <<alert_engines, alert_events>>
                  /\ UNCHANGED <<threads, alert_polling_threads, thread_control, in_flight>>
             ELSE /\ resp'.status = 404
                  /\ UNCHANGED <<alert_engines, camera_alert_engines, alert_events>>
                  /\ UNCHANGED <<threads, alert_polling_threads, thread_control, in_flight>> ]_vars

\* the only pairing is gone while the worker of its camera is registered,
\* past its loop test and holding an open event
C9_Witness ==
    /\ resp = Response("detach", 204, "none")
    /\ camera_alert_engines = {}
    /\ served = 2
    /\ Len(threads) = 1
    /\ DOMAIN alert_polling_threads = {threads[1].key}
    /\ threads[1].pc = "poll"
    /\ threads[1].active_event # None

\* C10: a poll that fails (a response that is not OK, or a request that
\* raises) leaves the worker in its loop with the reference and the event
\* store it had.
C10_FailedPollKeepsWorker ==
    [][ \A t \in DOMAIN threads, r \in FailedResults :
          polling_loop_poll(t, r)
          => /\ threads'[t].pc = "loop"
             /\ threads'[t].active_event = threads[t].active_event
             /\ alert_events' = alert_events ]_vars

\* C11: a worker enters its loop only from the model check, and only when
\* /model/info reported the model or the load request succeeded; the load is
\* requested only after an info that does not report the model; when the
\* check fails the worker returns with no poll sent and no event created;
\* polls are sent, and events created, only by a worker that is in its loop.
ModelReady(m) == m[1] = "loaded" \/ (m[1] = "not_loaded" /\ m[2] = "ok")

C11_PollsOnlyAfterModelLoaded ==
    [][ /\ \A m \in ModelOutcomes : m[2] # "none" => m[1] = "not_loaded"
        /\ \A t \in DOMAIN threads' \ DOMAIN threads : threads'[t].pc = "ensure_model"
        /\ \A t \in DOMAIN threads :
              /\ \A m \in ModelOutcomes :
                    polling_loop_ensure_model(t, m[1], m[2])
                    => IF ModelReady(m)
                       THEN threads'[t].pc = "loop"
                       ELSE /\ threads'[t].pc = "done"
                            /\ now' = now
                            /\ alert_events' = alert_events
              /\ threads[t].pc = "ensure_model"
                    => threads'[t].pc \in {"ensure_model", "loop", "done"}
              /\ (threads'[t].pc = "poll" /\ threads[t].pc # "poll")
                    => threads[t].pc = "loop"
        /\ (now' # now \/ alert_events' # alert_events)
              => \E t \in DOMAIN threads :
                    threads[t].pc = "poll" /\ threads'[t].pc \in {"loop", "done"} ]_vars

\* the only request so far is an attach, and its worker has returned from the
\* model check
C11_Witness ==
    /\ Len(threads) = 1
    /\ threads[1].pc = "done"
    /\ served = 1
    /\ now = 0
    /\ alert_events = <<>>
    /\ stopped = <<>>

\* C12: a create request whose name is that of an engine in the table when
\* the handler looks it up is answered 400, and adds, changes or queues no
\* engine; no two engines ever bear the same name.
NameInUse(name) == \E id \in DOMAIN alert_engines : alert_engines[id].name = name

C12_DuplicateNameRejected ==
    [][ /\ \A a \in CreateInputs :
              (create_alert_engine(a) /\ NameInUse(a.name))
              => /\ resp' = Response("create", 400, "none")
                 /\ UNCHANGED <<alert_engines, pending_creates, camera_alert_engines>>
        /\ \A x, y \in DOMAIN alert_engines' :
              alert_engines'[x].name = alert_engines'[y].name => x = y ]_vars

\* an engine was created, and a later create under a name in use was refused
C12_Witness ==
    /\ resp = Response("create", 400, "none")
    /\ Len(alert_engines) = Len(InitEngines) + 1
    /\ pending_creates = <<>>

\* C13: a create request of type human_detection is queued, stored and
\* answered with is_active false whatever it asked, a request of another type
\* with the is_active it asked; neither step of a create touches a thread,
\* the registry or the stop flags; a thread is spawned only by an attach
\* request of a human_detection engine, which has paired the engine with the
\* camera of the thread before it spawns.
C13_HumanDetectionStartsInactive ==
    [][ /\ \A a \in CreateInputs :
              (create_alert_engine(a) /\ ~ NameInUse(a.name))
              => /\ Len(pending_creates') = Len(pending_creates) + 1
                 /\ LET d == pending_creates'[Len(pending_creates')]
                    IN /\ d.name = a.name /\ d.type = a.type
                       /\ d.is_active = IF a.type = HUMAN_DETECTION THEN FALSE
                                        ELSE a.is_active
                 /\ UNCHANGED <<alert_engines, threads, alert_polling_threads,
                                thread_control, in_flight>>
        /\ \A i \in DOMAIN pending_creates :
              (create_alert_engine_commit(i) /\ resp'.status = 201)
              => /\ Len(alert_engines') = Len(alert_engines) + 1
                 /\ SubSeq(alert_engines', 1, Len(alert_engines)) = alert_engines
                 /\ LET row == alert_engines'[Len(alert_engines')]
                    IN /\ row.type = pending_creates[i].type
                       /\ row.is_active = pending_creates[i].is_active
                       /\ body'.is_active = row.is_active
                 /\ get_cameras_by_alert_engine(camera_alert_engines',
                                                Len(alert_engines')) = {}
                 /\ UNCHANGED <<threads, alert_polling_threads, thread_control, in_flight>>
        /\ Len(threads') > Len(threads)
              => \E i \in DOMAIN in_flight :
                    /\ add_alert_engine_to_camera_spawn(i)
                    /\ alert_engines[in_flight[i][2]].type = HUMAN_DETECTION
                    /\ threads'[Len(threads')].key = <<in_flight[i][1], PERSON>>
        /\ Len(in_flight') > Len(in_flight)
              => in_flight'[Len(in_flight')] \in camera_alert_engines' ]_vars

\* a human_detection engine asked active was created inactive, no thread about
C13_Witness ==
    /\ resp = Response("create", 201, "none")
    /\ body.kind = "engine"
    /\ body.type = HUMAN_DETECTION
    /\ ~ body.is_active
    /\ ~ alert_engines[body.id].is_active
    /\ threads = <<>>

\* C14: a camera update or a vehicle-tracking start during which a
\* downstream service raised or answered non-200 is answered 500 or 503.
C14_DownstreamFailureSurfaces ==
    [][ ( /\ served' # served
          /\ resp'.op \in {"update_camera", "start_tracking"}
          /\ downstream' = "failed" )
        => resp'.status \in {500, 503} ]_vars

\* C15: a vehicle-tracking start for a camera id that is not in the table is
\* answered 404, sends nothing to the AI service and changes no camera row.
C15_StartUnknownCamera ==
    [][ \A c \in CameraIds \ DOMAIN cameras, cfg \in {None, 1}, o \in DownstreamOutcomes :
          start_vehicle_tracking(c, cfg, o)
          => /\ resp' = Response("start_tracking", 404, "none")
             /\ ai_calls' = ai_calls
             /\ downstream' = "none"
             /\ UNCHANGED <<cameras, camera_status>> ]_vars

\* a start for an absent camera was refused after other requests had gone
\* through to the services
C15_Witness ==
    /\ resp = Response("start_tracking", 404, "none")
    /\ ai_calls > 0

\* C16: a vehicle-tracking start for a camera in the table is answered 400,
\* with nothing sent to the AI service and no row changed, exactly when the
\* camera's vehicle_tracking_enabled is false when the request is served, and
\* is otherwise sent to the AI service; the flag is true after every enable
\* and false after every disable.
C16_StartNeedsEnabledFlag ==
    [][ \A c \in DOMAIN cameras :
          /\ \A cfg \in {None, 1}, o \in DownstreamOutcomes :
                start_vehicle_tracking(c, cfg, o)
                => IF cameras[c].vehicle_tracking_enabled
                   THEN /\ ai_calls' = ai_calls + 1
                        /\ resp'.status = IF o = "ok" THEN 200 ELSE 500
                   ELSE /\ resp'.status = 400
                        /\ ai_calls' = ai_calls
                        /\ cameras' = cameras
          /\ enable_vehicle_tracking(c) => cameras'[c].vehicle_tracking_enabled
          /\ \A o \in DownstreamOutcomes :
                disable_vehicle_tracking(c, o) => ~ cameras'[c].vehicle_tracking_enabled ]_vars

\* a start was sent on after an enable, and the start after the disable that
\* followed was refused
C16_Witness ==
    /\ resp = Response("start_tracking", 400, "none")
    /\ served = 4
    /\ ai_calls = 2
    /\ cameras[1].vehicle_tracking_config = 1
    /\ \A c \in DOMAIN cameras : ~ cameras[c].vehicle_tracking_enabled

\* C17: a latest-annotated-snapshot request that is answered with a file
\* serves the annotation file recorded in the most recent event of a camera
\* of the engine.
LatestEvent(camera_id) ==
    LET of_camera == {i \in DOMAIN alert_events : alert_events[i].camera_id = camera_id}
    IN IF of_camera = {} THEN None ELSE CHOOSE i \in of_camera : \A j \in of_camera : j <= i

C17_SnapshotIsLatestEventAnnotation ==
    [][ \A e \in EngineIds, r \in SnapshotResults :
          (get_latest_annotated_snapshot(e, r) /\ resp'.status = 200)
          => \E c \in get_cameras_by_alert_engine(camera_alert_engines, e) :
                /\ LatestEvent(c) # None
                /\ body'.path = SharedPath(FramePath("annotation",
                                     alert_events[LatestEvent(c)].ai_annotation_path)) ]_vars

\* C18: an engine created by a request and read back by id is returned with
\* the config of that request: create queues and stores the config it was
\* given, answers with it, and a later read of the row returns it.
CreatedBy(a, engine) == a.name = engine.name /\ a.type = engine.type

C18_ConfigRoundTrip ==
    [][ /\ \A a \in CreateInputs :
              (create_alert_engine(a) /\ ~ NameInUse(a.name))
              => pending_creates'[Len(pending_creates')].config = a.config
        /\ \A i \in DOMAIN pending_creates :
              (create_alert_engine_commit(i) /\ resp'.status = 201)
              => /\ body'.config = pending_creates[i].config
                 /\ body'.id = Len(alert_engines')
                 /\ json_loads(alert_engines'[body'.id].config) = pending_creates[i].config
        /\ \A e \in DOMAIN alert_engines \ DOMAIN InitEngines :
              route_get_alert_engine(e)
              => /\ resp'.status = 200
                 /\ body'.id = e
                 /\ \E a \in CreateInputs : CreatedBy(a, body')
                 /\ \A a \in CreateInputs : CreatedBy(a, body') => body'.config = a.config ]_vars

\* the engine created with {"line": [[0,0],[10,10]]} was read back with it
C18_Witness ==
    /\ resp = Response("get", 200, "none")
    /\ body.kind = "engine"
    /\ body.id > Len(InitEngines)
    /\ body.config = LineConfig

\* C19: a worker that was registered when stop_alert_polling was called for
\* its key begins at most one more iteration of its loop before it leaves
\* the loop, whatever is started for the key in between.
C19_StoppedWorkerExits ==
    \A t \in DOMAIN stopped : stopped[t] <= 1

\* C20: at every successful poll, the worker holds an open-event reference
\* exactly when the event store holds an open event for its camera and
\* alert type.
C20_ReferenceMatchesStore ==
    [][ \A t \in DOMAIN threads, r \in OkResults :
          polling_loop_poll(t, r)
          => ( threads[t].active_event # None
               <=> get_active_event(alert_events, threads[t].key[1],
                                    threads[t].alert_type) # None ) ]_vars

\* C21: close_alert_event sets end_time on an existing open event, and
\* changes nothing when the event does not exist or is closed already.
C21_CloseIsIdempotent ==
    [][ \A id \in StoreIds :
          store_close_alert_event(id)
          => IF id \in DOMAIN alert_events /\ alert_events[id].end_time = None
             THEN alert_events' = [alert_events EXCEPT ![id].end_time = now']
             ELSE alert_events' = alert_events ]_vars

\* C22: update_alert_event on an existing event writes the fields the update
\* sets and no other, in that event and no other, and creates no event; the
\* update the worker sends leaves camera_id, alert_type, start_time and
\* end_time as they were; on an id no event has, the store is unchanged.
WorkerUpdates == {u \in StoreUpdates : DOMAIN u = {"ai_annotation_path", "detection_results"}}

C23_OwnSessionClosedOnExit ==
    [][ /\ \A t \in DOMAIN threads' :
              /\ threads'[t].session.owner = t
              /\ threads'[t].session.state = IF threads'[t].pc = "done" THEN "closed" ELSE "open"
        /\ \A t \in DOMAIN threads :
              (threads[t].pc # "done" /\ threads'[t].pc = "done")
              => threads[t].session.state = "open" /\ threads'[t].session.state = "closed"
        /\ alert_events' # alert_events
              => \E t \in DOMAIN threads :
                    /\ threads[t].pc = "poll" /\ threads[t].session.state = "open"
                    /\ \A u \in DOMAIN threads \ {t} : threads'[u] = threads[u] ]_vars

\* the only request was an attach; its worker opened an event at its first
\* poll and died of an exception at its second: its session is closed
C23_Witness ==
    /\ Len(threads) = 1
    /\ threads[1].pc = "done"
    /\ threads[1].session = [owner |-> 1, state |-> "closed"]
    /\ served = 1
    /\ now = 2
    /\ Len(alert_events) = 1

\* C24: every key of the registry refers to a worker that is still running.
C24_RegisteredWorkersAreLive ==
    \A k \in DOMAIN alert_polling_threads : Live(alert_polling_threads[k])

\* C25: when every worker has exited and no attach is under way, no event
\* is left without an end_time.
C25_ExitedWorkersLeaveNoOpenEvent ==
    (in_flight = <<>> /\ \A t \in DOMAIN threads : ~ Live(t))
    => \A i \in DOMAIN alert_events : alert_events[i].end_time # None

\* C26: between requests, every camera that an active human_detection
\* engine is attached to has its ("person") key in the registry.
C26_ActiveAttachedEngineHasWorker ==
    in_flight = <<>>
    => \A p \in camera_alert_engines :
          ( /\ get_alert_engine(alert_engines, p[2]) # None
            /\ alert_engines[p[2]].type = HUMAN_DETECTION
            /\ alert_engines[p[2]].is_active )
          => <<p[1], PERSON>> \in DOMAIN alert_polling_threads

\* C28: an event that has an end_time is never written again: no step
\* changes any of its fields.
C28_ClosedEventsAreFrozen ==
    [][ \A i \in DOMAIN alert_events :
          alert_events[i].end_time # None
          => (i \in DOMAIN alert_events' /\ alert_events'[i] = alert_events[i]) ]_vars

\* one worker closed its first event and has opened a second since
C28_Witness ==
    /\ Len(threads) = 1
    /\ Len(alert_events) = 2
    /\ alert_events[1].end_time # None
    /\ alert_events[2].end_time = None
    /\ threads[1].active_event = 2

\* C27: the delete of a human_detection engine leaves no camera the engine
\* was attached to with its ("person") key in the registry, and no worker
\* creates an event for such a camera afterwards.
C27_DeleteStopsWorkers ==
    [][ \A e \in EngineIds :
          ( /\ delete_alert_engine(e)
            /\ get_alert_engine(alert_engines, e) # None
            /\ alert_engines[e].type = HUMAN_DETECTION )
          => \A c \in AttachedCameras(e) :
                <<c, PERSON>> \notin DOMAIN alert_polling_threads' ]_vars

\* C29: after every camera request, for every camera of the table, the
\* is_active of the runtime status equals the is_active of the row.
C29_StatusMatchesDatabase ==
    [][ served' # served
        => \A c \in DOMAIN cameras' :
              get_camera_status_is_active(camera_status', c) = cameras'[c].is_active ]_vars

\* C30: process_extracted_frames sends at most max_wait_time / check_interval
\* decode-status requests, every request that does not end the wait counts
\* check_interval seconds, inference is reached only right after a request
\* that reported "completed" with frames, the timeout error only when
\* max_wait_time has been counted, and one of the two is always reached.
FramesDone == frames.pc \in {"inference", "timeout"}

C30_WaitIsBounded ==
    /\ [] ( /\ frames.checks * check_interval <= max_wait_time
            /\ frames.elapsed_time <= max_wait_time
            /\ frames.elapsed_time =
                  check_interval * (IF frames_ready(frames.last) THEN frames.checks - 1
                                    ELSE frames.checks)
            /\ frames.pc = "inference" => frames_ready(frames.last)
            /\ frames.pc = "timeout" => /\ frames.elapsed_time = max_wait_time
                                        /\ ~ frames_ready(frames.last) )
    /\ <> FramesDone

\* the frames were reported ready at the last request the loop allows
C30_Witness ==
    /\ frames.pc = "inference"
    /\ frames.checks * check_interval = max_wait_time
====
